---- MODULE Spec2Model ----
(***************************************************************************)
(* State-machine model of langfuse_handler: PromptGenerator, PromptRunner  *)
(* (langfuse_handler.py) and ExperimentRunner (eval_generator.py).         *)
(*                                                                         *)
(* Python dicts are functions whose DOMAIN is the set of keys; an ordered  *)
(* dict whose order matters (json_schema) is a sequence of <<key, value>>  *)
(* pairs.  Python None is the value PyNone.                                *)
(***************************************************************************)
EXTENDS Integers, Sequences, FiniteSets, TLC

VARIABLES
    environ,      \* os.environ: the set of variable names that are defined
    inst,         \* class name -> attribute dict of the last instance built
    ctorArg,      \* class name -> env_path argument of that construction
    promptConfig, \* PromptRunner.prompt.config, the prompt's stored dict
    storedConfig, \* the configuration the remote store holds for the prompt
    calls,        \* one record per run_prompt call, in call order
    failure,      \* the exception that left the last operation, or "none"
    pc,           \* position of the operation in progress ("idle" if none)
    args,         \* arguments and locals of the operation in progress
    idx,          \* number of loop iterations entered so far
    openRun,      \* item indices whose item.run context is open
    openGen,      \* item indices whose generation context is open
    modelCalls,   \* item index -> number of model-inference calls
    genOutput,    \* item index -> outputs recorded by generation.update
    traceOutput,  \* item index -> outputs recorded by update_trace
    evalCalls,    \* item indices handed to the evaluator, in call order
    sleeps,       \* the time.sleep calls made: <<60, R>> is 60/R seconds
    processed,    \* ids of the items whose run context closed normally
    run_traces,   \* get_dataset_run: the accumulator list
    fetched,      \* get_dataset_run: trace ids fetched, in order
    result        \* get_dataset_run: the returned value, tagged

vars == <<environ, inst, ctorArg, promptConfig, storedConfig, calls,
          failure, pc, args, idx, openRun, openGen, modelCalls,
          genOutput, traceOutput, evalCalls, sleeps, processed, run_traces,
          fetched, result>>

promptVars == <<promptConfig, storedConfig, calls>>
loopVars == <<idx, openRun, openGen, modelCalls, genOutput, traceOutput,
              evalCalls, sleeps, processed>>
fetchVars == <<run_traces, fetched, result>>

----------------------------------------------------------------------------
(* Bounds *)

MaxItems == 2      \* dataset sizes 0..MaxItems
MaxCalls == 2      \* direct run_prompt calls per behaviour
MaxRunItems == 2   \* run-item records returned by the run-items endpoint

----------------------------------------------------------------------------
(* Python values and dict helpers *)

PyNone == "<None>"

EmptyDict == <<>>

DictSet(d, k, v) == [x \in DOMAIN d \cup {k} |-> IF x = k THEN v ELSE d[x]]

DictDel(d, k) == [x \in DOMAIN d \ {k} |-> d[x]]

\* {**a, **b}: the keys of both, b's value where both have the key
DictMerge(a, b) ==
    [x \in DOMAIN a \cup DOMAIN b |-> IF x \in DOMAIN b THEN b[x] ELSE a[x]]

\* bool(s) of a string or None
TruthyStr(s) == s /= PyNone /\ s /= ""

\* bool(d) of a dict
TruthyDict(d) == DOMAIN d /= {}

Min(a, b) == IF a < b THEN a ELSE b

Max(a, b) == IF a > b THEN a ELSE b

\* seq[:n] for n >= 0 or n < 0; n is <<>> for None and <<k>> for the int k
SliceTo(seq, n) ==
    IF n = <<>> THEN seq
    ELSE IF n[1] >= 0 THEN SubSeq(seq, 1, Min(n[1], Len(seq)))
    ELSE SubSeq(seq, 1, Max(Len(seq) + n[1], 0))

RECURSIVE Join(_, _)
\* sep.join(parts)
Join(parts, sep) ==
    IF parts = <<>> THEN ""
    ELSE IF Len(parts) = 1 THEN parts[1]
    ELSE parts[1] \o sep \o Join(Tail(parts), sep)

----------------------------------------------------------------------------
(* Environment loading shared by the constructors *)

LangfuseKeys == {"LANGFUSE_PUBLIC_KEY", "LANGFUSE_SECRET_KEY", "LANGFUSE_HOST"}

AllKeys == LangfuseKeys \cup {"OPENAI_API_KEY"}

\* env_path arguments: None, the empty string, a complete file, and a file
\* that lacks OPENAI_API_KEY
EnvPaths == {PyNone, "", ".env", "partial.env"}

\* the variables the file at env_path defines
DotenvFile(env_path) ==
    IF env_path = ".env" THEN AllKeys
    ELSE IF env_path = "partial.env" THEN LangfuseKeys
    ELSE {}

\* dotenv.load_dotenv(env_path): defines the file's variables
LoadDotenv(env, env_path) == env \cup DotenvFile(env_path)

\* os.environ[K] = os.getenv(K) raises TypeError when K is undefined
CopyRaises(env, keys) == \E k \in keys : k \notin env

\* the `if env_path:` block of a constructor copying `keys`
EnvAfter(env, env_path) ==
    IF TruthyStr(env_path) THEN LoadDotenv(env, env_path) ELSE env

EnvRaises(env, env_path, keys) ==
    TruthyStr(env_path) /\ CopyRaises(LoadDotenv(env, env_path), keys)

Classes == {"PromptGenerator", "PromptRunner", "ExperimentRunner"}

----------------------------------------------------------------------------
(* PromptRunner.run_prompt *)

Schema1 == << <<"s", "skill">> >>

Schema2 == << <<"skill", "skill title">>, <<"bot_response", "reply">> >>

\* configurations a prompt is registered with (sample_usage/prompt_generator)
StoredConfigs ==
    { [model |-> "m"],
      [model |-> "m", json_schema |-> <<>>],
      [model |-> "m", json_schema |-> Schema1],
      [model |-> "m", temperature |-> "0", json_schema |-> Schema2] }

\* the config argument of run_prompt; EmptyDict is the default {}
Overrides ==
    { EmptyDict,
      [model |-> "o"],
      [model |-> "o", json_schema |-> Schema2] }

\* the input_data argument of run_prompt
Inputs == { [x |-> "1"], [x |-> "1", json_schema_str |-> "stale"] }

\* [f"'{key}': {value}" for key, value in json_schema.items()]
SchemaParts(json_schema) ==
    [i \in 1..Len(json_schema) |->
        "'" \o json_schema[i][1] \o "': " \o json_schema[i][2]]

\* config.pop('json_schema', {}): the value popped
PopValue(config) ==
    IF "json_schema" \in DOMAIN config THEN config["json_schema"] ELSE <<>>

\* variant: the key is read with get() and stays in the dict
PopRestKeepsKey(config) == config

\* config.pop('json_schema', {}): the dict left behind
PopRest(config) == DictDel(config, "json_schema")

\* the config run_prompt works on: the override, or the prompt's own dict
EffectiveConfig(pcfg, override) ==
    IF ~TruthyDict(override) THEN pcfg ELSE override

\* run_prompt up to the compile call: what it compiles, what it will send,
\* and what it leaves in the prompt's stored dict (aliased when no override)
RunPromptPrepare(pcfg, input_data, override) ==
    LET config == EffectiveConfig(pcfg, override)
        json_schema == PopValue(config)
        rest == PopRest(config)
    IN [ cfg |-> config,
         payload |-> IF json_schema /= <<>>
                     THEN DictSet(input_data, "json_schema_str",
                                  Join(SchemaParts(json_schema), ", "))
                     ELSE input_data,
         send |-> rest,
         prompt_config |-> IF ~TruthyDict(override) THEN rest ELSE pcfg ]

\* how a run_prompt call ends: compile raises, the client raises, or the
\* first choice's content ("bar" or "baz") is returned
Outcomes == {"compile_error", "client_error", "bar", "baz"}

\* the record of one run_prompt call for item `item` (0: a direct call)
CallRecord(prep, item, outcome) ==
    [ cfg |-> prep.cfg, payload |-> prep.payload, item |-> item,
      sent |-> IF outcome = "compile_error" THEN <<>> ELSE <<prep.send>>,
      out |-> outcome ]

Errors == {"compile_error", "client_error"}

----------------------------------------------------------------------------
(* Constructors *)

\* PromptGenerator.__init__(env_path)
PromptGeneratorInit(env_path) ==
    /\ pc = "idle"
    /\ environ' = EnvAfter(environ, env_path)
    /\ IF EnvRaises(environ, env_path, LangfuseKeys)
       THEN /\ failure' = "TypeError"
            /\ UNCHANGED <<inst, ctorArg>>
       ELSE /\ failure' = "none"
            /\ inst' = [inst EXCEPT !["PromptGenerator"] =
                            [langfuse |-> "client"]]
            /\ ctorArg' = [ctorArg EXCEPT !["PromptGenerator"] = env_path]
    /\ UNCHANGED <<promptVars, pc, args, loopVars, fetchVars>>

PromptNames == {"p", "unknown"}

ModelClients == {"openai", "custom"}

\* PromptRunner.__init__(prompt_name, env_path, model_client)
PromptRunnerInit(prompt_name, env_path, model_client) ==
    /\ pc = "idle"
    /\ environ' = EnvAfter(environ, env_path)
    /\ IF EnvRaises(environ, env_path, AllKeys)
       THEN /\ failure' = "TypeError"
            /\ UNCHANGED <<inst, ctorArg, promptConfig>>
       ELSE IF prompt_name /= "p"
       THEN /\ failure' = "NotFound"
            /\ UNCHANGED <<inst, ctorArg, promptConfig>>
       ELSE /\ failure' = "none"
            /\ inst' = [inst EXCEPT !["PromptRunner"] =
                  [model_client |-> IF model_client = "openai"
                                    THEN "OpenAI()" ELSE model_client,
                   langfuse |-> "client",
                   prompt |-> prompt_name]]
            /\ ctorArg' = [ctorArg EXCEPT !["PromptRunner"] = env_path]
            /\ promptConfig' = storedConfig
    /\ UNCHANGED <<storedConfig, calls, pc, args, loopVars, fetchVars>>

\* a caller's runner.run_prompt(input_data, config)
RunPromptCall(input_data, override, outcome) ==
    /\ pc = "idle"
    /\ DOMAIN inst["PromptRunner"] /= {}
    /\ Len(calls) < MaxCalls
    /\ LET prep == RunPromptPrepare(promptConfig, input_data, override)
       IN /\ promptConfig' = prep.prompt_config
          /\ calls' = Append(calls, CallRecord(prep, 0, outcome))
    /\ failure' = IF outcome \in Errors THEN outcome ELSE "none"
    /\ UNCHANGED <<environ, inst, ctorArg, storedConfig, pc, args, loopVars,
                   fetchVars>>

----------------------------------------------------------------------------
(* Initial state: the module is imported, nothing is constructed *)

Environs == { {}, LangfuseKeys, AllKeys }

Init ==
    /\ environ \in Environs
    /\ inst = [c \in Classes |-> EmptyDict]
    /\ ctorArg = [c \in Classes |-> PyNone]
    /\ storedConfig \in StoredConfigs
    /\ promptConfig = EmptyDict
    /\ calls = <<>>
    /\ failure = "none"
    /\ pc = "idle"
    /\ args = EmptyDict
    /\ idx = 0
    /\ openRun = {}
    /\ openGen = {}
    /\ modelCalls = [i \in 1..MaxItems |-> 0]
    /\ genOutput = [i \in 1..MaxItems |-> <<>>]
    /\ traceOutput = [i \in 1..MaxItems |-> <<>>]
    /\ evalCalls = <<>>
    /\ sleeps = <<>>
    /\ processed = <<>>
    /\ run_traces = <<>>
    /\ fetched = <<>>
    /\ result = [t |-> "unset"]

\* the constructors alone, over every argument
NextCtor ==
    \/ \E e \in EnvPaths : PromptGeneratorInit(e)
    \/ \E n \in PromptNames, e \in EnvPaths, m \in ModelClients :
          PromptRunnerInit(n, e, m)

SpecCtor == Init /\ [][NextCtor]_vars

\* a caller that builds runners for the registered prompt and calls them
NextPrompt ==
    \/ \E e \in {PyNone, ".env"} : PromptRunnerInit("p", e, "openai")
    \/ \E i \in Inputs, o \in Overrides, r \in Outcomes \ {"baz"} :
          RunPromptCall(i, o, r)

SpecPrompt == Init /\ [][NextPrompt]_vars

----------------------------------------------------------------------------
(* Properties of the constructors and of run_prompt, checked under         *)
(* SpecPrompt                                                              *)

\* the text a schema is expected to be rendered to
SchemaText(json_schema) ==
    CASE json_schema = Schema1 -> "'s': skill"
      [] json_schema = Schema2 ->
            "'skill': skill title, 'bot_response': reply"

\* C3: every run_prompt call whose effective configuration holds a
\* non-empty json_schema compiles a payload whose json_schema_str is the
\* "'key': description" pairs joined by ", ", and the configuration it
\* passes to the model client has no json_schema key.
C3_SchemaRenderedAndStripped ==
    \A k \in 1..Len(calls) :
        LET c == calls[k]
        IN ("json_schema" \in DOMAIN c.cfg /\ c.cfg.json_schema /= <<>>) =>
              /\ "json_schema_str" \in DOMAIN c.payload
              /\ c.payload.json_schema_str = SchemaText(c.cfg.json_schema)
              /\ \A j \in 1..Len(c.sent) :
                    "json_schema" \notin DOMAIN c.sent[j]

\* a call with a two-entry schema reached the model client and returned
C3_Witness ==
    \E k \in 1..Len(calls) :
        /\ "json_schema" \in DOMAIN calls[k].cfg
        /\ calls[k].cfg.json_schema = Schema2
        /\ calls[k].sent /= <<>>
        /\ calls[k].out = "bar"

\* C9: a PromptGenerator or PromptRunner constructed with an env_path
\* argument has an env_path attribute equal to that argument.
C9_EnvPathAttribute ==
    \A c \in {"PromptGenerator", "PromptRunner"} :
        (DOMAIN inst[c] /= {} /\ ctorArg[c] /= PyNone) =>
            /\ "env_path" \in DOMAIN inst[c]
            /\ inst[c]["env_path"] = ctorArg[c]

----------------------------------------------------------------------------
(* ExperimentRunner.run_experiment *)

ItemIds == <<"a", "b", "c", "d">>

\* the i-th item of the remote dataset
ItemAt(i) ==
    [ id |-> ItemIds[i],
      input |-> [x |-> ItemIds[i]],
      expected_output |-> "foo-" \o ItemIds[i] ]

\* dataset.items of a dataset holding n items
DatasetItems(n) == [i \in 1..n |-> ItemAt(i)]

\* test_count arguments: <<>> is None (the default)
TestCounts == {<<>>} \cup {<<k>> : k \in 0..(MaxItems + 1)}

\* requests_per_minute arguments: <<>> is "not supplied"
RpmArgs == {<<>>, <<0>>, <<-1>>, <<60>>}

\* requests_per_minute: int = 1000
DefaultRunRpm == 1000

\* the parameter's default applies when the argument is not supplied
RunRpm(rpmArg) == IF rpmArg = <<>> THEN DefaultRunRpm ELSE rpmArg[1]

\* variant: the guard is >= 0
SleepTimeNonNegative(rpm) == IF rpm >= 0 THEN <<60, rpm>> ELSE <<>>

\* 60.0 / requests_per_minute if requests_per_minute > 0 else 0, kept as the
\* fraction <<60, R>>; <<>> is 0
SleepTime(rpm) == IF rpm > 0 THEN <<60, rpm>> ELSE <<>>

\* if sleep_time > 0: time.sleep(sleep_time)
AfterSleep(log, sleep_time) ==
    IF sleep_time /= <<>> THEN Append(log, sleep_time) ELSE log

\* variant: the context is never closed
ExitContextLeak(open, i) == open

\* leaving a `with` block, normally or by an exception, closes its context
ExitContext(open, i) == open \ {i}

\* variant: the loop body swallows the exception and goes on
RaisePcContinue(exc) == "loop"

\* where control goes when a statement of the loop body raises: nothing in
\* run_experiment or prompt_app catches, so the call is left
RaisePc(exc) == "raised"

Op == IF "op" \in DOMAIN args THEN args.op ELSE "none"

FreshLoop ==
    /\ idx' = 0
    /\ openRun' = {}
    /\ openGen' = {}
    /\ modelCalls' = [i \in 1..MaxItems |-> 0]
    /\ genOutput' = [i \in 1..MaxItems |-> <<>>]
    /\ traceOutput' = [i \in 1..MaxItems |-> <<>>]
    /\ evalCalls' = <<>>
    /\ sleeps' = <<>>
    /\ processed' = <<>>

\* ExperimentRunner.__init__(env_path)
ExperimentRunnerInit(env_path) ==
    /\ pc = "idle"
    /\ environ' = EnvAfter(environ, env_path)
    /\ IF EnvRaises(environ, env_path, AllKeys)
       THEN /\ failure' = "TypeError"
            /\ UNCHANGED <<inst, ctorArg>>
       ELSE /\ failure' = "none"
            /\ inst' = [inst EXCEPT !["ExperimentRunner"] =
                            [langfuse |-> "client"]]
            /\ ctorArg' = [ctorArg EXCEPT !["ExperimentRunner"] = env_path]
    /\ pc' = "idle"
    /\ args' = EmptyDict
    /\ UNCHANGED <<promptVars, loopVars, fetchVars>>

\* the caller's `runner.env_path = v`: the only way the attribute that
\* run_experiment reads comes to exist on an ExperimentRunner
AssignEnvPath(v) ==
    /\ pc = "idle"
    /\ DOMAIN inst["ExperimentRunner"] /= {}
    /\ inst' = [inst EXCEPT !["ExperimentRunner"] = DictSet(@, "env_path", v)]
    /\ pc' = "idle"
    /\ args' = EmptyDict
    /\ UNCHANGED <<environ, ctorArg, promptVars, failure, loopVars, fetchVars>>

\* run_experiment up to the head of its loop: the PromptRunner is built
\* from self.env_path, the dataset is loaded and sliced.  A behaviour holds
\* one call: pc leaves "idle" and ends at "done" or "raised".
RunExperimentStart(prompt_name, n, test_count, rpmArg, evaluator) ==
    LET self == inst["ExperimentRunner"]
        call == [ op |-> "run_experiment", items |-> DatasetItems(n),
                  test_count |-> test_count, rpmArg |-> rpmArg,
                  rpm |-> RunRpm(rpmArg), evaluator |-> evaluator,
                  sleep_time |-> SleepTime(RunRpm(rpmArg)),
                  selected |-> SliceTo(DatasetItems(n), test_count),
                  response |-> PyNone ]
    IN
    /\ pc = "idle"
    /\ DOMAIN self /= {}
    /\ FreshLoop
    /\ calls' = <<>>
    /\ args' = call
    /\ IF "env_path" \notin DOMAIN self
       THEN /\ failure' = "AttributeError"
            /\ pc' = RaisePc("AttributeError")
            /\ UNCHANGED <<environ, promptConfig>>
       ELSE /\ environ' = EnvAfter(environ, self["env_path"])
            /\ IF EnvRaises(environ, self["env_path"], AllKeys)
               THEN /\ failure' = "TypeError"
                    /\ pc' = RaisePc("TypeError")
                    /\ UNCHANGED promptConfig
               ELSE IF prompt_name /= "p"
               THEN /\ failure' = "NotFound"
                    /\ pc' = RaisePc("NotFound")
                    /\ UNCHANGED promptConfig
               ELSE /\ failure' = "none"
                    /\ pc' = "loop"
                    /\ promptConfig' = storedConfig
    /\ UNCHANGED <<inst, ctorArg, storedConfig, fetchVars>>

\* an exception raised while item idx is being processed: the open
\* contexts are exited and the exception leaves run_experiment
ItemRaises(exc) ==
    /\ failure' = exc
    /\ pc' = RaisePc(exc)
    /\ openGen' = ExitContext(openGen, idx)
    /\ openRun' = ExitContext(openRun, idx)

\* the for statement: the next selected item enters `with item.run(...)`
EnterRun(ok) ==
    /\ pc = "loop" /\ Op = "run_experiment"
    /\ IF idx < Len(args.selected)
       THEN /\ idx' = idx + 1
            /\ IF ok
               THEN /\ openRun' = openRun \cup {idx + 1}
                    /\ pc' = "in_run"
                    /\ UNCHANGED failure
               ELSE /\ failure' = "LoggingError"
                    /\ pc' = RaisePc("LoggingError")
                    /\ UNCHANGED openRun
       ELSE /\ ok
            /\ pc' = "done"
            /\ UNCHANGED <<idx, openRun, failure>>
    /\ UNCHANGED <<environ, inst, ctorArg, promptVars, args, openGen,
                   modelCalls, genOutput, traceOutput, evalCalls, sleeps,
                   processed, fetchVars>>

\* prompt_app: `with self.langfuse.start_as_current_generation(...)`
EnterGeneration(ok) ==
    /\ pc = "in_run"
    /\ IF ok
       THEN /\ openGen' = openGen \cup {idx}
            /\ pc' = "in_gen"
            /\ UNCHANGED <<failure, openRun>>
       ELSE ItemRaises("LoggingError")
    /\ UNCHANGED <<environ, inst, ctorArg, promptVars, args, idx,
                   modelCalls, genOutput, traceOutput, evalCalls, sleeps,
                   processed, fetchVars>>

\* prompt_app: response = self.run_prompt(prompt_runner, input_data), which
\* is prompt_runner.run_prompt(input_data) with no config override
CallRunPrompt(outcome) ==
    /\ pc = "in_gen"
    /\ LET prep == RunPromptPrepare(promptConfig, args.selected[idx].input,
                                    EmptyDict)
       IN /\ promptConfig' = prep.prompt_config
          /\ calls' = Append(calls, CallRecord(prep, idx, outcome))
    /\ modelCalls' = [modelCalls EXCEPT ![idx] =
                         IF outcome = "compile_error" THEN @ ELSE @ + 1]
    /\ IF outcome \in Errors
       THEN /\ ItemRaises(outcome)
            /\ UNCHANGED args
       ELSE /\ args' = [args EXCEPT !.response = outcome]
            /\ pc' = "called"
            /\ UNCHANGED <<failure, openGen, openRun>>
    /\ UNCHANGED <<environ, inst, ctorArg, storedConfig, idx, genOutput,
                   traceOutput, evalCalls, sleeps, processed, fetchVars>>

\* prompt_app: generation.update(output=response)
GenerationUpdate(ok) ==
    /\ pc = "called"
    /\ IF ok
       THEN /\ genOutput' = [genOutput EXCEPT ![idx] =
                                Append(@, args.response)]
            /\ pc' = "updated"
            /\ UNCHANGED <<failure, openGen, openRun>>
       ELSE /\ ItemRaises("LoggingError")
            /\ UNCHANGED genOutput
    /\ UNCHANGED <<environ, inst, ctorArg, promptVars, args, idx, modelCalls,
                   traceOutput, evalCalls, sleeps, processed, fetchVars>>

\* prompt_app: generation.update_trace(input=..., output=response), then
\* `return response` leaves the generation context
UpdateTrace(ok) ==
    /\ pc = "updated"
    /\ IF ok
       THEN /\ traceOutput' = [traceOutput EXCEPT ![idx] =
                                  Append(@, args.response)]
            /\ openGen' = ExitContext(openGen, idx)
            /\ pc' = "returned"
            /\ UNCHANGED <<failure, openRun>>
       ELSE /\ ItemRaises("LoggingError")
            /\ UNCHANGED traceOutput
    /\ UNCHANGED <<environ, inst, ctorArg, promptVars, args, idx, modelCalls,
                   genOutput, evalCalls, sleeps, processed, fetchVars>>

\* `if evaluator is not None: evaluator(response, item, root_span)`, then
\* the item.run context is left
Evaluate(ok) ==
    /\ pc = "returned"
    /\ IF args.evaluator
       THEN evalCalls' = Append(evalCalls, idx)
       ELSE ok /\ UNCHANGED evalCalls
    /\ IF ok
       THEN /\ openRun' = ExitContext(openRun, idx)
            /\ processed' = Append(processed, args.selected[idx].id)
            /\ pc' = "sleep"
            /\ UNCHANGED <<failure, openGen>>
       ELSE /\ ItemRaises("EvaluatorError")
            /\ UNCHANGED processed
    /\ UNCHANGED <<environ, inst, ctorArg, promptVars, args, idx, modelCalls,
                   genOutput, traceOutput, sleeps, fetchVars>>

\* `if sleep_time > 0: time.sleep(sleep_time)`, the last statement of the
\* loop body
Sleep ==
    /\ pc = "sleep"
    /\ sleeps' = AfterSleep(sleeps, args.sleep_time)
    /\ pc' = "loop"
    /\ UNCHANGED <<environ, inst, ctorArg, promptVars, failure, args, idx,
                   openRun, openGen, modelCalls, genOutput, traceOutput,
                   evalCalls, processed, fetchVars>>

Next ==
    \/ \E e \in EnvPaths : ExperimentRunnerInit(e)
    \/ \E e \in EnvPaths : AssignEnvPath(e)
    \/ /\ pc = "idle"
       /\ \E p \in PromptNames, n \in 0..MaxItems, t \in TestCounts,
             r \in RpmArgs, ev \in BOOLEAN :
             RunExperimentStart(p, n, t, r, ev)
    \/ \E ok \in BOOLEAN : EnterRun(ok)
    \/ \E ok \in BOOLEAN : EnterGeneration(ok)
    \/ \E o \in Outcomes : CallRunPrompt(o)
    \/ \E ok \in BOOLEAN : GenerationUpdate(ok)
    \/ \E ok \in BOOLEAN : UpdateTrace(ok)
    \/ \E ok \in BOOLEAN : Evaluate(ok)
    \/ Sleep

Spec == Init /\ [][Next]_vars

----------------------------------------------------------------------------
(* Properties of run_experiment, checked under Spec *)

InRun == Op = "run_experiment"

Ended == pc \in {"done", "raised"}

\* exceptions raised while an item is being processed
ItemFailures == {"LoggingError", "compile_error", "client_error",
                 "EvaluatorError"}

\* exceptions of the remote services and of the environment loading
RemoteFailures == ItemFailures \cup {"TypeError", "NotFound"}

\* the requests-per-minute value in force, computed from the argument
RateOf(rpmArg) == IF rpmArg = <<>> THEN 1000 ELSE rpmArg[1]

\* C2 (as claimed): a finished run of K items with R > 0 has made exactly
\* K-1 sleeps of 60/R seconds, and a run with R = 0 or with R not supplied
\* has made none.
C2_SleepsOnlyBetweenItems ==
    (InRun /\ pc = "done") =>
        LET K == Len(processed)
        IN /\ (args.rpmArg /= <<>> /\ args.rpmArg[1] > 0 /\ K >= 1) =>
                  sleeps = [i \in 1..(K - 1) |-> <<60, args.rpmArg[1]>>]
           /\ (args.rpmArg = <<>> \/ args.rpmArg[1] = 0) => sleeps = <<>>

\* C2 (amended): with R the rate in force (the argument, or the default
\* 1000 when it is not supplied), run_experiment sleeps 60/R seconds once
\* after every processed item, the last one included, and never before the
\* first; with R <= 0 it never sleeps.
C2_SleepAfterEveryItem ==
    InRun =>
        LET R == RateOf(args.rpmArg)
            slept == Len(processed) - (IF pc = "sleep" THEN 1 ELSE 0)
        IN sleeps = [i \in 1..(IF R > 0 THEN slept ELSE 0) |-> <<60, R>>]

\* a finished run of two items that slept twice, the second time after the
\* last item
C2_Witness ==
    /\ InRun /\ pc = "done"
    /\ Len(processed) = 2 /\ Len(args.selected) = 2
    /\ Len(sleeps) = 2

\* C4: a run_experiment call on a constructed ExperimentRunner in which no
\* remote service fails ends having processed exactly the first min(N, L)
\* items of the dataset, all N when L is absent.
C4_ProcessesFirstMinNL ==
    (InRun /\ Ended /\ failure \notin RemoteFailures) =>
        LET N == Len(args.items)
            K == IF args.test_count = <<>> THEN N
                 ELSE Min(N, args.test_count[1])
        IN processed = [i \in 1..K |-> ItemIds[i]]

\* C7: no two run contexts are open together, the open one belongs to the
\* current item and is opened only after every earlier item was closed;
\* the processed items are the leading items of the dataset in order, and
\* each of them has exactly one model call, one generation output and one
\* trace output, both equal to the response of that call.
C7_OneCallOneTracePerItem ==
    InRun =>
        /\ Cardinality(openRun) <= 1
        /\ openRun \subseteq {idx}
        /\ openGen \subseteq openRun
        /\ openRun /= {} => Len(processed) = idx - 1
        /\ Len(processed) <= Len(args.items)
        /\ \A k \in 1..Len(processed) :
              /\ processed[k] = args.items[k].id
              /\ modelCalls[k] = 1
              /\ Cardinality({c \in 1..Len(calls) : calls[c].item = k}) = 1
              /\ \A c \in 1..Len(calls) : calls[c].item = k =>
                    /\ c = k
                    /\ genOutput[k] = <<calls[c].out>>
                    /\ traceOutput[k] = <<calls[c].out>>

\* two items processed one after the other, with different responses
C7_Witness ==
    /\ InRun /\ pc = "done"
    /\ Len(processed) = 2
    /\ genOutput[1] = <<"bar">> /\ genOutput[2] = <<"baz">>

\* C8: once the processing of item i raises, run_experiment is left with
\* that exception: the items before i are the processed ones, no later
\* item has a model call, an output or an evaluator call, item i has at
\* most one model call and one evaluator call, every context is closed and
\* the sleeps made are those after the items before i.
C8_FailureAbortsBatch ==
    (InRun /\ failure \in ItemFailures) =>
        /\ pc = "raised"
        /\ idx >= 1
        /\ processed = [k \in 1..(idx - 1) |-> args.selected[k].id]
        /\ openRun = {} /\ openGen = {}
        /\ modelCalls[idx] <= 1
        /\ \A j \in 1..MaxItems : j > idx =>
              /\ modelCalls[j] = 0
              /\ genOutput[j] = <<>>
              /\ traceOutput[j] = <<>>
        /\ \A k \in 1..Len(calls) : calls[k].item <= idx
        /\ \A k \in 1..Len(evalCalls) : evalCalls[k] = k /\ k <= idx
        /\ Len(sleeps) = (IF RateOf(args.rpmArg) > 0 THEN idx - 1 ELSE 0)

\* the evaluator raised on the first of two selected items of a
\* rate-limited run
C8_Witness ==
    /\ InRun /\ failure = "EvaluatorError"
    /\ idx = 1 /\ Len(args.selected) = 2
    /\ RateOf(args.rpmArg) > 0

\* C10: run_prompt without an override leaves the prompt's configuration as
\* the store holds it, so every call of a batch whose prompt has a non-empty
\* json_schema compiles a payload that contains json_schema_str.
C10_PromptConfigUnchanged ==
    (InRun /\ Len(calls) > 0) =>
        /\ promptConfig = storedConfig
        /\ \A k \in 1..Len(calls) :
              PopValue(storedConfig) /= <<>> =>
                  "json_schema_str" \in DOMAIN calls[k].payload

----------------------------------------------------------------------------
(* ExperimentRunner.get_dataset_run and make_serializable                   *)
(*                                                                         *)
(* The values make_serializable walks are tagged with their Python type:   *)
(* [t |-> "str", v |-> text], [t |-> "int", v |-> decimal text],           *)
(* [t |-> "none"], [t |-> "dict", v |-> function], [t |-> "list", v |->    *)
(* sequence], and [t |-> "obj", v |-> __dict__] for any other object.      *)

StrVal(s) == [t |-> "str", v |-> s]

NoneVal == [t |-> "none"]

DictVal(d) == [t |-> "dict", v |-> d]

\* str(obj) of a value that is neither text nor a container
StrOf(obj) == IF obj.t = "none" THEN "None" ELSE obj.v

RECURSIVE make_serializable(_)
make_serializable(obj) ==
    IF obj.t = "dict"
    THEN DictVal([k \in DOMAIN obj.v |-> make_serializable(obj.v[k])])
    ELSE IF obj.t = "list"
    THEN [t |-> "list",
          v |-> [i \in DOMAIN obj.v |-> make_serializable(obj.v[i])]]
    ELSE IF obj.t = "obj"
    THEN make_serializable(DictVal(obj.v))
    ELSE IF obj.t \notin {"str", "bytes"}
    THEN StrVal(StrOf(obj))
    ELSE obj

\* the attributes of the i-th dataset item, as get_dataset returns it
ItemObj(i) ==
    [ id |-> StrVal(ItemAt(i).id),
      input |-> DictVal([x |-> StrVal(ItemAt(i).input.x)]),
      expected_output |-> StrVal(ItemAt(i).expected_output),
      metadata |-> NoneVal ]

\* trace ids of the store and the dataset item id each trace recorded;
\* "zz" is the id of no dataset item
TraceIds == {"t1", "t2", "tx"}

TraceItemId(tid) ==
    CASE tid = "t1" -> "a" [] tid = "t2" -> "b" [] tid = "tx" -> "zz"

\* self.langfuse.api.trace.get(tid): the attributes of the trace
TraceObj(tid) ==
    [ id |-> StrVal(tid),
      input |-> DictVal([x |-> StrVal(TraceItemId(tid)),
                         json_schema_str |-> StrVal("'s': skill")]),
      output |-> StrVal("bar-" \o tid),
      latency |-> [t |-> "int", v |-> "2"],
      metadata |-> DictVal([dataset_item_id |-> StrVal(TraceItemId(tid))]) ]

\* getattr(obj, attr, None)
GetAttr(obj, attr) == IF attr \in DOMAIN obj THEN obj[attr] ELSE NoneVal

Range(seq) == {seq[i] : i \in 1..Len(seq)}

\* {attr: getattr(obj, attr, None) for attr in names}
Project(obj, names) == [a \in Range(names) |-> GetAttr(obj, a)]

\* {item.id: item for item in dataset.items}, for a dataset of n items
ItemLookup(n) ==
    [id \in {ItemAt(i).id : i \in 1..n} |->
        ItemObj(CHOOSE i \in 1..n : ItemAt(i).id = id)]

\* variant: trace_dict is unpacked last
CombineTraceLast(trace_dict, item_dict) == DictMerge(item_dict, trace_dict)

\* combined_dict = {**trace_dict, **item_dict}
Combine(trace_dict, item_dict) == DictMerge(trace_dict, item_dict)

\* variant: a 4xx status is treated as a success
HttpErrorOnly5xx(status) == status >= 500 /\ status < 600

\* response.raise_for_status() raises HTTPError
HttpError(status) == status >= 400 /\ status < 600

\* variant: the record is dropped
AppendTraceDropped(list, rec) == list

\* run_traces.append(combined_dict)
AppendTrace(list, rec) == Append(list, rec)

Statuses == {200, 404, 500}

\* the 'data' list of the run-items response, as the trace ids it names
RECURSIVE SeqsUpTo(_, _)
SeqsUpTo(S, n) ==
    IF n = 0 THEN {<<>>}
    ELSE SeqsUpTo(S, n - 1) \cup
         {Append(q, x) : q \in {r \in SeqsUpTo(S, n - 1) : Len(r) = n - 1},
                         x \in S}

RunItemLists == SeqsUpTo(TraceIds, MaxRunItems)

TraceInfos == {<<"input", "output">>, <<"id", "output">>, <<"latency", "nope">>}

ItemInfos == {<<>>, <<"expected_output">>, <<"id", "input">>}

\* requests_per_minute: int = 25
DefaultFetchRpm == 25

FetchRpm(rpmArg) == IF rpmArg = <<>> THEN DefaultFetchRpm ELSE rpmArg[1]

\* get_dataset_run up to the head of its loop: the URL is built from the
\* environment, the dataset is resolved, the run-items GET is issued and
\* its status checked
GetDatasetRunStart(n, rpmArg, trace_info, dataset_item_info, status, data) ==
    /\ pc = "idle"
    /\ DOMAIN inst["ExperimentRunner"] /= {}
    /\ FreshLoop
    /\ run_traces' = <<>>
    /\ fetched' = <<>>
    /\ args' = [ op |-> "get_dataset_run", n |-> n, rpmArg |-> rpmArg,
                 trace_info |-> trace_info,
                 dataset_item_info |-> dataset_item_info,
                 status |-> status, run_items |-> data,
                 sleep_time |-> SleepTime(FetchRpm(rpmArg)) ]
    /\ IF ~(LangfuseKeys \subseteq environ)
       THEN /\ failure' = "KeyError"
            /\ pc' = RaisePc("KeyError")
            /\ UNCHANGED result
       ELSE IF HttpError(status)
       THEN /\ failure' = "none"
            /\ pc' = "done"
            /\ result' = NoneVal
       ELSE /\ failure' = "none"
            /\ pc' = "fetching"
            /\ UNCHANGED result
    /\ UNCHANGED <<environ, inst, ctorArg, promptVars>>

\* one iteration of the loop over run_items: the trace is fetched, joined to
\* its dataset item, projected, appended, and the rate-limit sleep is made
FetchTrace(ok) ==
    /\ pc = "fetching"
    /\ idx < Len(args.run_items)
    /\ idx' = idx + 1
    /\ LET tid == args.run_items[idx + 1]
           trace == TraceObj(tid)
           key == trace.metadata.v.dataset_item_id.v
           item_lookup == ItemLookup(args.n)
       IN IF ~ok
          THEN /\ failure' = "RemoteError"
               /\ pc' = RaisePc("RemoteError")
               /\ UNCHANGED <<fetched, run_traces, sleeps>>
          ELSE /\ fetched' = Append(fetched, tid)
               /\ IF key \notin DOMAIN item_lookup
                  THEN /\ failure' = "KeyError"
                       /\ pc' = RaisePc("KeyError")
                       /\ UNCHANGED <<run_traces, sleeps>>
                  ELSE /\ run_traces' = AppendTrace(run_traces,
                              Combine(Project(trace, args.trace_info),
                                      Project(item_lookup[key],
                                              args.dataset_item_info)))
                       /\ sleeps' = AfterSleep(sleeps, args.sleep_time)
                       /\ UNCHANGED <<failure, pc>>
    /\ UNCHANGED <<environ, inst, ctorArg, promptVars, args, openRun, openGen,
                   modelCalls, genOutput, traceOutput, evalCalls, processed,
                   result>>

\* after the loop: every accumulated record is made serializable and the
\* list is returned
ReturnTraces ==
    /\ pc = "fetching"
    /\ idx = Len(args.run_items)
    /\ result' = [t |-> "list",
                  v |-> [i \in 1..Len(run_traces) |->
                            make_serializable(DictVal(run_traces[i]))]]
    /\ pc' = "done"
    /\ UNCHANGED <<environ, inst, ctorArg, promptVars, failure, args,
                   loopVars, run_traces, fetched>>

NextFetch ==
    \/ \E e \in EnvPaths : ExperimentRunnerInit(e)
    \/ /\ pc = "idle"
       /\ \E n \in 0..MaxItems, r \in {<<>>, <<0>>, <<60>>},
             ti \in TraceInfos, ii \in ItemInfos, st \in Statuses,
             d \in RunItemLists :
             GetDatasetRunStart(n, r, ti, ii, st, d)
    \/ \E ok \in BOOLEAN : FetchTrace(ok)
    \/ ReturnTraces

\* the prompt plays no part in get_dataset_run: one registered configuration
InitFetch == Init /\ storedConfig = [model |-> "m"]

SpecFetch == InitFetch /\ [][NextFetch]_vars

----------------------------------------------------------------------------
(* Properties of get_dataset_run, checked under SpecFetch *)

InFetch == Op = "get_dataset_run"

\* the names requested both as trace fields and as item fields
Collisions == Range(args.trace_info) \cap Range(args.dataset_item_info)

\* the dataset item a trace recorded, when the dataset of n items holds it
ItemOfTrace(tid) ==
    ItemObj(CHOOSE i \in 1..Len(ItemIds) : ItemIds[i] = TraceItemId(tid))

Resolves(tid, n) == \E i \in 1..n : ItemIds[i] = TraceItemId(tid)

\* C1 (as claimed): in every returned record, a name requested both as a
\* trace field and as an item field carries the trace's value.
C1_TraceValueWins ==
    (InFetch /\ result.t = "list") =>
        \A k \in 1..Len(result.v) : \A a \in Collisions :
            result.v[k].v[a] =
                make_serializable(GetAttr(TraceObj(args.run_items[k]), a))

\* C1 (amended): in every returned record, a name requested both as a trace
\* field and as an item field carries the dataset item's value: item fields
\* are layered on top of trace fields.
C1_ItemValueWins ==
    (InFetch /\ result.t = "list") =>
        \A k \in 1..Len(result.v) : \A a \in Collisions :
            result.v[k].v[a] =
                make_serializable(GetAttr(ItemOfTrace(args.run_items[k]), a))

\* a returned record in which "id" was requested from both sides and the
\* trace's id differs from the item's id
C1_Witness ==
    /\ InFetch /\ result.t = "list"
    /\ Len(result.v) >= 1
    /\ "id" \in Collisions
    /\ TraceObj(args.run_items[1]).id /= ItemOfTrace(args.run_items[1]).id
    /\ result.v[1].v["id"] = StrVal("a")

\* C5: when the run-items GET was issued and answered with an error
\* status, get_dataset_run has returned None without raising, having
\* fetched no trace, accumulated no record and made no sleep.
C5_HttpErrorReturnsNone ==
    (InFetch /\ LangfuseKeys \subseteq environ /\ args.status >= 400) =>
        /\ pc = "done"
        /\ failure = "none"
        /\ result = NoneVal
        /\ fetched = <<>>
        /\ run_traces = <<>>
        /\ sleeps = <<>>

\* a 404 answer whose body names run items, with rate limiting in force
C5_Witness ==
    /\ InFetch /\ pc = "done"
    /\ args.status = 404
    /\ Len(args.run_items) = 2
    /\ args.sleep_time /= <<>>
    /\ result = NoneVal

\* the record expected for one run item: every requested name, the item's
\* value for the names requested as item fields
ExpectedRecord(tid) ==
    DictVal([a \in Range(args.trace_info) \cup Range(args.dataset_item_info)
             |-> make_serializable(
                    IF a \in Range(args.dataset_item_info)
                    THEN GetAttr(ItemOfTrace(tid), a)
                    ELSE GetAttr(TraceObj(tid), a))])

\* C6: once a fetched trace records an item id the dataset does not hold,
\* get_dataset_run has raised KeyError at that run item and returns no
\* list; every list it returns has one record per run item, in the order of
\* the run-items response.
C6_NoRunItemDropped ==
    InFetch =>
        /\ \A k \in 1..Len(fetched) :
              ~Resolves(fetched[k], args.n) =>
                  /\ pc = "raised" /\ failure = "KeyError"
                  /\ result.t /= "list"
                  /\ k = Len(fetched) /\ k = idx
                  /\ Len(run_traces) = k - 1
        /\ result.t = "list" =>
              /\ Len(result.v) = Len(args.run_items)
              /\ \A k \in 1..Len(result.v) :
                    result.v[k] = ExpectedRecord(args.run_items[k])

\* the second of two run items names a trace whose item the dataset lacks
C6_Witness ==
    /\ InFetch /\ failure = "KeyError"
    /\ fetched = <<"t1", "tx">>
    /\ Len(run_traces) = 1

====
